---- MODULE Spec2Model ----
(***************************************************************************)
(* Role-based account management of c-link's backend (FastAPI routes in    *)
(* backend/app/routes/auth.py and backend/app/routes/admin.py) in front of *)
(* the hosted identity provider (Supabase auth).                           *)
(*                                                                         *)
(* The provider owns the accounts; the routes hold no state of their own.  *)
(* One action is one HTTP request served to completion: the dependency     *)
(* chain (bearer token -> get_current_user -> get_admin_user /             *)
(* get_superadmin_user), the handler body, and every provider call made.   *)
(*                                                                         *)
(* Two specifications:                                                     *)
(*   Spec         every route served end to end, the bearer token resolved *)
(*                by the get_current_user of the module that declares the  *)
(*                route;                                                   *)
(*   SpecHandler  the routes of routes/admin.py from the point where the   *)
(*                framework has injected current_user (an account the      *)
(*                provider resolved), i.e. get_admin_user /                *)
(*                get_superadmin_user and the handler bodies applied to a  *)
(*                resolved actor.                                          *)
(***************************************************************************)
EXTENDS Integers, Sequences, FiniteSets, TLC

\* Number of account ids the provider can hand out in a run.
MaxAccounts == 3

Ids == 1..MaxAccounts
\* Bearer tokens: token i was issued for account i; token 0 names no account.
Tokens == 0..MaxAccounts
NoId == 0

\* class Role(str, Enum)
Roles == {"user", "admin", "superadmin"}
\* The "role" entry of an account's user_metadata; "none": no such entry.
Meta == Roles \cup {"none"}
\* Optional[...] = None of UserUpdate; a value absent from a request.
None == "None"

\* user_metadata.get("role", Role.USER)
RoleOf_default_admin(meta) == IF meta = "none" THEN "admin" ELSE meta
RoleOf(meta) == IF meta = "none" THEN "user" ELSE meta

\* str.lower() on the e-mail addresses a request can carry.
Lower(s) == CASE s = "New@x.io" -> "new@x.io"
              [] OTHER -> s

\* Values a request can carry.
EmailInputs == {None, "New@x.io"}
PasswordInputs == {None, "password2"}
\* Disposition of the provider towards the request's calls: it answers all
\* of them, fails the target lookup, fails the final call (list, create,
\* update, delete), or answers the final create without a user.
Fails == {"none", "lookup", "final", "empty"}
\* The dispositions that matter to a route: it creates an account, it looks
\* the target up before the final call, or it makes the final call only.
CreateFails == {"none", "final", "empty"}
LookupFails == {"none", "lookup", "final"}
FinalFails == {"none", "final"}
\* Disposition of the provider towards the token resolution.
Resolutions == {"ok", "error", "nouser"}

VARIABLES
    accounts,    \* the provider's account store: id -> account
    last,        \* the last request served and its response
    accounts0,   \* the account store of the initial state, kept for as long
                 \* as no superadmin has made a request
    superActed,  \* some request so far carried the token of a superadmin
    revoked,     \* the access tokens whose session the provider has ended
    pending      \* the request in flight between its target lookup and its
                 \* final call, if any

vars == <<accounts, last, accounts0, superActed, revoked, pending>>

\* An account: whether the id is still free, live or deleted, the "role"
\* entry of its user_metadata and its e-mail address.  The password is kept
\* by the provider and never read back; it is visible in the calls only.
Blank == [st |-> "free", role |-> "none", email |-> ""]
Gone == [st |-> "deleted", role |-> "none", email |-> ""]

Live(acc, i) == i \in Ids /\ acc[i].st = "live"

\* No request is in flight.
Idle == [route |-> "none"]

InitEmail(i) == "u" \o ToString(i) \o "@x.io"

NoRequest ==
    [route |-> "none", token |-> 0, res |-> "ok", actor |-> NoId,
     actorMeta |-> "none",
     resolved |-> FALSE, uid |-> NoId, targetLive |-> FALSE,
     targetMeta |-> "none",
     role |-> None, email |-> None, password |-> None,
     status |-> 0, detail |-> "", calls |-> <<>>, rejected |-> FALSE,
     body |-> {}]

\* Accounts 1 .. MaxAccounts-1 exist, each with any role entry; the last id
\* is still to be handed out.
Init ==
    /\ \E r \in [1..(MaxAccounts - 1) -> Meta] :
          accounts = [i \in Ids |->
                        IF i < MaxAccounts
                        THEN [st |-> "live", role |-> r[i], email |-> InitEmail(i)]
                        ELSE Blank]
    /\ last = NoRequest
    /\ accounts0 = accounts
    /\ superActed = FALSE
    /\ revoked = {}
    /\ pending = Idle

(***************************************************************************)
(* The provider, as the routes call it.  Every operator takes the account  *)
(* store and returns what the call answers (and the store it leaves).      *)
(***************************************************************************)

\* One provider call, as logged per request.
Call(op, id, payload) == [op |-> op, id |-> id, payload |-> payload]

\* supabase.auth.get_user(token): the account the token was issued for, an
\* error, or a response that carries no user.
ProviderGetUser(acc, token, res) ==
    IF res = "nouser" THEN [kind |-> "nouser", id |-> NoId]
    ELSE IF res = "ok" /\ Live(acc, token) /\ token \notin revoked
    THEN [kind |-> "user", id |-> token]
    ELSE [kind |-> "error", id |-> NoId]

\* create_client(url, key): a client made anew holds no session.
FreshClientSession == NoId

\* supabase.auth.sign_out(): ends the session the client holds, if any.
ProviderSignOut(rev, session) ==
    IF session = NoId THEN rev ELSE rev \cup {session}

\* The user object the provider returns for account i.
UserObject_as_first_issued(acc, i) == [id |-> i, meta |-> accounts0[i].role]
UserObject(acc, i) == [id |-> i, meta |-> acc[i].role]

\* supabase.auth.admin.get_user_by_id(user_id)
ProviderLookupOk(acc, uid, fail) == Live(acc, uid) /\ fail # "lookup"

\* The provider refuses an e-mail address another account holds.
EmailTaken(acc, email, self) ==
    \E i \in Ids : i # self /\ acc[i].st = "live" /\ acc[i].email = email

\* Payload entries as (key, value) pairs.
Has(payload, key) == \E kv \in payload : kv[1] = key
Get(payload, key) == (CHOOSE kv \in payload : kv[1] = key)[2]

\* supabase.auth.admin.update_user_by_id(user_id, payload): accepted?
ProviderUpdateOk(acc, uid, payload, fail) ==
    /\ Live(acc, uid)
    /\ fail # "final"
    /\ Has(payload, "email") => ~EmailTaken(acc, Get(payload, "email"), uid)

\* The store after an accepted update: user_metadata is merged, the e-mail
\* address is replaced.
ProviderUpdate(acc, uid, payload) ==
    [acc EXCEPT ![uid] =
        [st |-> "live",
         role |-> IF Has(payload, "role") THEN Get(payload, "role") ELSE @.role,
         email |-> IF Has(payload, "email") THEN Get(payload, "email") ELSE @.email]]

\* supabase.auth.admin.delete_user(user_id)
ProviderDeleteOk(acc, uid, fail) == Live(acc, uid) /\ fail # "final"
ProviderDelete(acc, uid) == [acc EXCEPT ![uid] = Gone]

\* Account creation (auth.sign_up, auth.admin.create_user): the next id.
FreeIds(acc) == {i \in Ids : acc[i].st = "free"}
NextId(acc) == CHOOSE i \in FreeIds(acc) : \A j \in FreeIds(acc) : i <= j
ProviderCreateOk(acc, email, fail) ==
    /\ fail \notin {"final", "empty"}
    /\ ~EmailTaken(acc, email, NoId)
ProviderCreate(acc, email, role) ==
    [acc EXCEPT ![NextId(acc)] = [st |-> "live", role |-> role, email |-> email]]

(***************************************************************************)
(* Responses and exceptions.                                               *)
(***************************************************************************)

\* What serving a request yields: the HTTP status and detail, the provider
\* calls issued in order, whether the provider failed or refused one of
\* them, the store afterwards and the listed accounts (id, role) of a body.
Reply(status, detail, calls, rejected, accs, body) ==
    [status |-> status, detail |-> detail, calls |-> calls,
     rejected |-> rejected, accs |-> accs, body |-> body]

\* str(e) of an HTTPException raised inside a handler's try block.
StrHTTP(status, detail) == ToString(status) \o ": " \o detail

\* Names bound in the module namespace of routes/admin.py.
AdminModuleNames ==
    {"APIRouter", "HTTPException", "Depends", "HTTPBearer",
     "HTTPAuthorizationCredentials", "BaseModel", "EmailStr", "constr",
     "Client", "get_supabase_admin_client", "Optional", "Enum", "os",
     "router", "security", "Role", "UserSignup", "UserUpdate"}
\* Names bound in the module namespace of routes/auth.py.
AuthModuleNames ==
    {"APIRouter", "HTTPException", "Depends", "Response", "HTTPBearer",
     "HTTPAuthorizationCredentials", "BaseModel", "EmailStr", "constr",
     "Client", "get_supabase_client", "Optional", "Enum", "os",
     "router", "security", "Role", "UserSignup", "UserSignin", "UserUpdate",
     "ForgotPasswordRequest"}

NameErrorText(name) == "name '" \o name \o "' is not defined"
ProviderErrorText == "provider error"

(***************************************************************************)
(* Dependencies.                                                           *)
(***************************************************************************)

Unauthenticated(calls, rejected) ==
    [ok |-> FALSE, user |-> [id |-> NoId, meta |-> "none"], status |-> 401,
     detail |-> "Invalid authentication credentials", calls |-> calls,
     rejected |-> rejected]

\* The body both get_current_user share: resolve the token at the provider;
\* every exception, the 401 raised for a missing user included, is answered
\* 401 by the except clause.  names: the namespace of the declaring module.
ResolveToken(names, acc, token, res) ==
    IF "get_supabase_client" \notin names
    THEN Unauthenticated(<<>>, FALSE)
    ELSE LET user == ProviderGetUser(acc, token, res)
             calls == <<Call("get_user", token, {})>>
         IN  IF user.kind = "error" THEN Unauthenticated(calls, TRUE)
             ELSE IF user.kind = "nouser" THEN Unauthenticated(calls, FALSE)
             ELSE [ok |-> TRUE, user |-> UserObject(acc, user.id),
                   status |-> 200, detail |-> "", calls |-> calls,
                   rejected |-> FALSE]

\* routes/auth.py get_current_user
auth_get_current_user_no_user_check(acc, token, res) ==
    LET user == ProviderGetUser(acc, token, res)
        calls == <<Call("get_user", token, {})>>
    IN  IF user.kind = "error" THEN Unauthenticated(calls, TRUE)
        ELSE [ok |-> TRUE, user |-> [id |-> user.id, meta |-> "none"],
              status |-> 200, detail |-> "", calls |-> calls, rejected |-> FALSE]
auth_get_current_user(acc, token, res) ==
    ResolveToken(AuthModuleNames, acc, token, res)

\* routes/admin.py get_current_user
admin_get_current_user(acc, token, res) ==
    ResolveToken(AdminModuleNames, acc, token, res)

\* get_admin_user: TRUE when the dependency lets the request through.
get_admin_user_any_role(current_user) ==
    RoleOf(current_user.meta) \in {"admin", "superadmin", "user"}
get_admin_user(current_user) ==
    RoleOf(current_user.meta) \in {"admin", "superadmin"}

\* get_superadmin_user
get_superadmin_user(current_user) ==
    RoleOf(current_user.meta) = "superadmin"

Forbidden(detail, acc) == Reply(403, detail, <<>>, FALSE, acc, {})

\* update_user_role: role in [Role.ADMIN, Role.SUPERADMIN]
SetsPrivilegedRole_superadmin_only(role) == role = "superadmin"
SetsPrivilegedRole_admin_only(role) == role = "admin"
SetsPrivilegedRole(role) == role \in {"admin", "superadmin"}

\* delete_user, update_user: target_role in [Role.ADMIN, Role.SUPERADMIN]
TargetIsPrivileged_superadmin_only(target_role) == target_role = "superadmin"
TargetIsPrivileged(target_role) == target_role \in {"admin", "superadmin"}

(***************************************************************************)
(* Handlers of routes/admin.py, from the injected current_user on.         *)
(***************************************************************************)

\* POST /signup/admin
signup_admin(acc, current_user, email, password, fail) ==
    IF ~get_superadmin_user(current_user)
    THEN Forbidden("Superadmin access required", acc)
    ELSE LET calls == <<Call("create_user", NoId,
                             {<<"email", Lower(email)>>, <<"password", password>>,
                              <<"role", "admin">>, <<"email_confirm", "true">>})>>
         IN  IF ProviderCreateOk(acc, Lower(email), fail)
             THEN Reply(200, "Admin created successfully", calls, FALSE,
                        ProviderCreate(acc, Lower(email), "admin"), {})
             ELSE IF fail = "empty"
             THEN Reply(400, StrHTTP(400, "Failed to create admin"), calls, TRUE,
                        acc, {})
             ELSE Reply(400, ProviderErrorText, calls, TRUE, acc, {})

\* GET /users
list_users(acc, current_user, fail) ==
    IF ~get_admin_user(current_user)
    THEN Forbidden("Admin or Superadmin access required", acc)
    ELSE LET calls == <<Call("list_users", NoId, {})>>
         IN  IF fail = "final"
             THEN Reply(500, ProviderErrorText, calls, TRUE, acc, {})
             ELSE Reply(200, "", calls, FALSE, acc,
                        {<<i, RoleOf(acc[i].role)>> : i \in {j \in Ids : Live(acc, j)}})

\* PUT /users/{user_id}/role
update_user_role(acc, current_user, user_id, role, fail) ==
    IF ~get_admin_user(current_user)
    THEN Forbidden("Admin or Superadmin access required", acc)
    ELSE IF SetsPrivilegedRole(role)
            /\ RoleOf(current_user.meta) # "superadmin"
    THEN Reply(400,
               StrHTTP(403, "Superadmin access required to set admin or superadmin role"),
               <<>>, FALSE, acc, {})
    ELSE LET payload == {<<"role", role>>}
             calls == <<Call("update_user_by_id", user_id, payload)>>
         IN  IF ProviderUpdateOk(acc, user_id, payload, fail)
             THEN Reply(200, "User role updated", calls, FALSE,
                        ProviderUpdate(acc, user_id, payload), {})
             ELSE Reply(400, ProviderErrorText, calls, TRUE, acc, {})

\* DELETE /users/{user_id}
delete_user_check_after_delete(acc, current_user, user_id, fail) ==
    IF ~get_admin_user(current_user)
    THEN Forbidden("Admin or Superadmin access required", acc)
    ELSE LET lookup == <<Call("get_user_by_id", user_id, {})>>
             calls == Append(lookup, Call("delete_user", user_id, {}))
         IN  IF ~ProviderLookupOk(acc, user_id, fail)
             THEN Reply(400, ProviderErrorText, lookup, TRUE, acc, {})
             ELSE IF ~ProviderDeleteOk(acc, user_id, fail)
             THEN Reply(400, ProviderErrorText, calls, TRUE, acc, {})
             ELSE IF TargetIsPrivileged(RoleOf(acc[user_id].role))
                     /\ RoleOf(current_user.meta) # "superadmin"
             THEN Reply(400,
                        StrHTTP(403, "Superadmin access required to delete admin or superadmin"),
                        calls, FALSE, ProviderDelete(acc, user_id), {})
             ELSE Reply(200, "User deleted successfully", calls, FALSE,
                        ProviderDelete(acc, user_id), {})
delete_user(acc, current_user, user_id, fail) ==
    IF ~get_admin_user(current_user)
    THEN Forbidden("Admin or Superadmin access required", acc)
    ELSE LET lookup == <<Call("get_user_by_id", user_id, {})>>
         IN  IF ~ProviderLookupOk(acc, user_id, fail)
             THEN Reply(400, ProviderErrorText, lookup, TRUE, acc, {})
             ELSE IF TargetIsPrivileged(RoleOf(acc[user_id].role))
                     /\ RoleOf(current_user.meta) # "superadmin"
             THEN Reply(400,
                        StrHTTP(403, "Superadmin access required to delete admin or superadmin"),
                        lookup, FALSE, acc, {})
             ELSE LET calls == Append(lookup, Call("delete_user", user_id, {}))
                  IN  IF ProviderDeleteOk(acc, user_id, fail)
                      THEN Reply(200, "User deleted successfully", calls, FALSE,
                                 ProviderDelete(acc, user_id), {})
                      ELSE Reply(400, ProviderErrorText, calls, TRUE, acc, {})

\* update_payload of update_user
UpdatePayload(email, password) ==
    (IF email # None THEN {<<"email", Lower(email)>>} ELSE {})
    \cup (IF password # None THEN {<<"password", password>>} ELSE {})

\* PUT /users/{user_id}/update
update_user(acc, current_user, user_id, email, password, fail) ==
    IF email = None /\ password = None
    THEN Reply(400,
               StrHTTP(400, "At least one of email or password must be provided"),
               <<>>, FALSE, acc, {})
    ELSE IF user_id = current_user.id
    THEN \* Case 1: the actor's own account, through get_supabase_client()
         IF "get_supabase_client" \notin AdminModuleNames
         THEN Reply(400, NameErrorText("get_supabase_client"), <<>>, FALSE, acc, {})
         ELSE LET payload == UpdatePayload(email, password)
                  calls == <<Call("update_user", user_id, payload)>>
              IN  IF ProviderUpdateOk(acc, user_id, payload, fail)
                  THEN Reply(200, "User updated successfully", calls, FALSE,
                             ProviderUpdate(acc, user_id, payload), {})
                  ELSE Reply(400, ProviderErrorText, calls, TRUE, acc, {})
    ELSE \* Case 2: another account, through the admin client
         LET lookup == <<Call("get_user_by_id", user_id, {})>>
         IN  IF ~ProviderLookupOk(acc, user_id, fail)
             THEN Reply(400, ProviderErrorText, lookup, TRUE, acc, {})
             ELSE IF RoleOf(current_user.meta) = "admin"
                     /\ TargetIsPrivileged(RoleOf(acc[user_id].role))
             THEN Reply(400,
                        StrHTTP(403, "Admins cannot update other admins or superadmins"),
                        lookup, FALSE, acc, {})
             ELSE LET payload ==
                          UpdatePayload(email, password)
                          \cup (IF RoleOf(current_user.meta) = "superadmin"
                                   /\ email # None
                                THEN {<<"email_confirm", "true">>} ELSE {})
                      calls == Append(lookup,
                                      Call("update_user_by_id", user_id, payload))
                  IN  IF ProviderUpdateOk(acc, user_id, payload, fail)
                      THEN Reply(200, "User updated successfully", calls, FALSE,
                                 ProviderUpdate(acc, user_id, payload), {})
                      ELSE Reply(400, ProviderErrorText, calls, TRUE, acc, {})

(***************************************************************************)
(* Handlers of routes/auth.py.                                             *)
(***************************************************************************)

\* POST /signup/user
signup_user(acc, email, password, fail) ==
    LET calls == <<Call("sign_up", NoId,
                        {<<"email", Lower(email)>>, <<"password", password>>,
                         <<"role", "user">>})>>
    IN  IF ProviderCreateOk(acc, Lower(email), fail)
        THEN Reply(200, "User created successfully", calls, FALSE,
                   ProviderCreate(acc, Lower(email), "user"), {})
        ELSE IF fail = "empty"
        THEN Reply(400, StrHTTP(400, "Failed to create user"), calls, TRUE, acc, {})
        ELSE Reply(400, ProviderErrorText, calls, TRUE, acc, {})

\* GET /me
get_current_user_profile(acc, current_user) ==
    Reply(200, "", <<>>, FALSE, acc,
          {<<current_user.id, RoleOf(current_user.meta)>>})

\* POST /signout.  The handler declares no credential parameter: the bearer
\* token of the request is not read, and the client it signs out is made
\* anew.
signout_of_bearer(acc, rev, bearer, fail) ==
    LET calls == <<Call("sign_out", bearer, {})>>
    IN  IF fail = "final"
        THEN [reply |-> Reply(400, ProviderErrorText, calls, TRUE, acc, {}),
              revoked |-> rev]
        ELSE [reply |-> Reply(200, "Signed out successfully", calls, FALSE, acc, {}),
              revoked |-> ProviderSignOut(rev, bearer)]
signout(acc, rev, bearer, fail) ==
    LET session == FreshClientSession
        calls == <<Call("sign_out", session, {})>>
    IN  IF fail = "final"
        THEN [reply |-> Reply(400, ProviderErrorText, calls, TRUE, acc, {}),
              revoked |-> rev]
        ELSE [reply |-> Reply(200, "Signed out successfully", calls, FALSE, acc, {}),
              revoked |-> ProviderSignOut(rev, session)]

(***************************************************************************)
(* Requests.                                                               *)
(***************************************************************************)

\* The response to a request whose dependency chain starts with a token
\* resolution r: the 401 of the resolver, or the handler's reply with the
\* resolution call in front of the handler's calls.
Chain(r, acc, reply) ==
    IF r.ok
    THEN [reply EXCEPT !.calls = r.calls \o @]
    ELSE Reply(r.status, r.detail, r.calls, r.rejected, acc, {})

\* History: whether a superadmin has made a request once the request with
\* this token is served, and the initial store once it is no longer needed.
SuperActedAfter(who) ==
    superActed \/ (who.id # NoId /\ RoleOf(who.meta) = "superadmin")
Forgotten == [i \in Ids |-> Blank]

\* The account a bearer token was issued for, as the store has it.
Bearer(token) ==
    IF Live(accounts, token) THEN [id |-> token, meta |-> accounts[token].role]
    ELSE [id |-> NoId, meta |-> "none"]

\* Answer one request: the provider's store becomes the reply's, and the
\* request and its response are recorded.  who is the actor, the account the
\* bearer token was issued for as it was when the request arrived, res the
\* provider's disposition towards resolving the token; resolved tells
\* whether the handler received the actor as current_user.  The target is
\* recorded as the store has it when the reply's store takes its place.
Respond(route, token, who, res, resolved, uid, role, email, password, reply) ==
    /\ accounts' = reply.accs
    /\ last' = [route |-> route, token |-> token, res |-> res,
                actor |-> who.id, actorMeta |-> who.meta,
                resolved |-> resolved, uid |-> uid,
                targetLive |-> Live(accounts, uid),
                targetMeta |-> IF Live(accounts, uid) THEN accounts[uid].role
                               ELSE "none",
                role |-> role, email |-> email, password |-> password,
                status |-> reply.status, detail |-> reply.detail,
                calls |-> reply.calls, rejected |-> reply.rejected,
                body |-> reply.body]
    /\ superActed' = SuperActedAfter(who)
    /\ accounts0' = IF SuperActedAfter(who) THEN Forgotten ELSE accounts0

\* A request served in one step, by a handler that ends no session.
Serve(route, token, res, resolved, uid, role, email, password, reply) ==
    /\ Respond(route, token, Bearer(token), res, resolved, uid, role, email,
               password, reply)
    /\ UNCHANGED <<revoked, pending>>

\* ---- end to end: the routes as mounted by main.py ----

HttpMe ==
    \E token \in Tokens, res \in Resolutions :
        LET r == auth_get_current_user(accounts, token, res)
        IN  Serve("me", token, res, r.ok, NoId, None, None, None,
                  Chain(r, accounts, get_current_user_profile(accounts, r.user)))

HttpSignout ==
    \E bearer \in Tokens, fail \in FinalFails :
        LET out == signout(accounts, revoked, bearer, fail)
        IN  /\ Respond("signout", bearer, Bearer(bearer), "ok", FALSE, NoId,
                       None, None, None, out.reply)
            /\ revoked' = out.revoked
            /\ UNCHANGED pending

HttpSignupUser ==
    \E email \in EmailInputs \ {None}, password \in PasswordInputs \ {None},
       fail \in CreateFails :
        /\ FreeIds(accounts) # {}
        /\ Serve("signup_user", 0, "ok", FALSE, NoId, None, email, password,
                 signup_user(accounts, email, password, fail))

HttpSignupAdmin ==
    \E token \in Tokens, res \in Resolutions,
       email \in EmailInputs \ {None}, password \in PasswordInputs \ {None},
       fail \in CreateFails :
        LET r == admin_get_current_user(accounts, token, res)
        IN  /\ FreeIds(accounts) # {}
            /\ Serve("signup_admin", token, res, r.ok, NoId, None, email, password,
                     Chain(r, accounts,
                           signup_admin(accounts, r.user, email, password, fail)))

HttpListUsers ==
    \E token \in Tokens, res \in Resolutions, fail \in FinalFails :
        LET r == admin_get_current_user(accounts, token, res)
        IN  Serve("list_users", token, res, r.ok, NoId, None, None, None,
                  Chain(r, accounts, list_users(accounts, r.user, fail)))

HttpUpdateUserRole ==
    \E token \in Tokens, res \in Resolutions, uid \in Ids, role \in Roles,
       fail \in FinalFails :
        LET r == admin_get_current_user(accounts, token, res)
        IN  Serve("update_user_role", token, res, r.ok, uid, role, None, None,
                  Chain(r, accounts,
                        update_user_role(accounts, r.user, uid, role, fail)))

HttpDeleteUser ==
    \E token \in Tokens, res \in Resolutions, uid \in Ids, fail \in LookupFails :
        LET r == admin_get_current_user(accounts, token, res)
        IN  Serve("delete_user", token, res, r.ok, uid, None, None, None,
                  Chain(r, accounts, delete_user(accounts, r.user, uid, fail)))

HttpUpdateUser ==
    \E token \in Tokens, res \in Resolutions, uid \in Ids,
       email \in EmailInputs, password \in PasswordInputs, fail \in LookupFails :
        LET r == admin_get_current_user(accounts, token, res)
        IN  Serve("update_user", token, res, r.ok, uid, None, email, password,
                  Chain(r, accounts,
                        update_user(accounts, r.user, uid, email, password, fail)))

Next ==
    \/ HttpMe
    \/ HttpSignout
    \/ HttpSignupUser
    \/ HttpSignupAdmin
    \/ HttpListUsers
    \/ HttpUpdateUserRole
    \/ HttpDeleteUser
    \/ HttpUpdateUser

Spec == Init /\ [][Next]_vars

\* ---- the admin routes with current_user injected ----

Actors == {i \in Ids : Live(accounts, i)}

SignupAdmin ==
    \E a \in Actors, email \in EmailInputs \ {None},
       password \in PasswordInputs \ {None}, fail \in CreateFails :
        /\ FreeIds(accounts) # {}
        /\ Serve("signup_admin", a, "ok", TRUE, NoId, None, email, password,
                 signup_admin(accounts, UserObject(accounts, a), email, password, fail))

ListUsers ==
    \E a \in Actors, fail \in FinalFails :
        Serve("list_users", a, "ok", TRUE, NoId, None, None, None,
              list_users(accounts, UserObject(accounts, a), fail))

UpdateUserRole ==
    \E a \in Actors, uid \in Ids, role \in Roles, fail \in FinalFails :
        Serve("update_user_role", a, "ok", TRUE, uid, role, None, None,
              update_user_role(accounts, UserObject(accounts, a), uid, role, fail))

DeleteUser ==
    \E a \in Actors, uid \in Ids, fail \in LookupFails :
        Serve("delete_user", a, "ok", TRUE, uid, None, None, None,
              delete_user(accounts, UserObject(accounts, a), uid, fail))

UpdateUser ==
    \E a \in Actors, uid \in Ids, email \in EmailInputs,
       password \in PasswordInputs, fail \in LookupFails :
        Serve("update_user", a, "ok", TRUE, uid, None, email, password,
              update_user(accounts, UserObject(accounts, a), uid, email, password, fail))

NextHandler ==
    \/ SignupAdmin
    \/ ListUsers
    \/ UpdateUserRole
    \/ DeleteUser
    \/ UpdateUser
    \/ HttpSignupUser
    \/ HttpMe
    \/ HttpSignout

SpecHandler == Init /\ [][NextHandler]_vars

\* ---- delete_user and update_user in two steps, other requests between ----

\* The final call of delete_user for the request in flight p, on the store
\* as it is when the call arrives.
delete_user_final(acc, p) ==
    LET calls == Append(p.calls, p.final)
    IN  IF ProviderDeleteOk(acc, p.uid, p.fail)
        THEN Reply(200, "User deleted successfully", calls, FALSE,
                   ProviderDelete(acc, p.uid), {})
        ELSE Reply(400, ProviderErrorText, calls, TRUE, acc, {})

\* The final call of update_user (Case 2) for the request in flight p.
update_user_final(acc, p) ==
    LET calls == Append(p.calls, p.final)
    IN  IF ProviderUpdateOk(acc, p.uid, p.final.payload, p.fail)
        THEN Reply(200, "User updated successfully", calls, FALSE,
                   ProviderUpdate(acc, p.uid, p.final.payload), {})
        ELSE Reply(400, ProviderErrorText, calls, TRUE, acc, {})

\* The handler got past its target lookup and its role check: the reply
\* logs the lookup and the final call.
ReachesFinalCall(reply) == Len(reply.calls) = 2

\* The request stays in flight, its lookup answered and its final call (as
\* the handler has prepared it) still to arrive at the provider.
Suspend(route, a, uid, email, password, fail, reply) ==
    /\ pending' = [route |-> route, token |-> a, who |-> Bearer(a), uid |-> uid,
                   email |-> email, password |-> password, fail |-> fail,
                   calls |-> SubSeq(reply.calls, 1, 1),
                   final |-> reply.calls[2]]
    /\ superActed' = SuperActedAfter(Bearer(a))
    /\ accounts0' = IF SuperActedAfter(Bearer(a)) THEN Forgotten ELSE accounts0
    /\ UNCHANGED <<accounts, last, revoked>>

\* The provider's disposition towards a request that is served in two steps:
\* it answers the lookup; the final call is refused only for what the store
\* holds when it arrives.
InFlightFails == {"none"}
\* What an update_user request served in two steps carries: a new password.
InFlightEmails == {None}
InFlightPasswords == PasswordInputs \ {None}

BeginDeleteUser ==
    /\ pending = Idle
    /\ \E a \in Actors, uid \in Ids, fail \in InFlightFails :
          LET reply == delete_user(accounts, UserObject(accounts, a), uid, fail)
          IN  IF ReachesFinalCall(reply)
              THEN Suspend("delete_user", a, uid, None, None, fail, reply)
              ELSE Serve("delete_user", a, "ok", TRUE, uid, None, None, None, reply)

BeginUpdateUser ==
    /\ pending = Idle
    /\ \E a \in Actors, uid \in Ids, email \in InFlightEmails,
          password \in InFlightPasswords, fail \in InFlightFails :
          LET reply == update_user(accounts, UserObject(accounts, a), uid, email,
                                   password, fail)
          IN  IF ReachesFinalCall(reply)
              THEN Suspend("update_user", a, uid, email, password, fail, reply)
              ELSE Serve("update_user", a, "ok", TRUE, uid, None, email, password,
                         reply)

FinishDeleteUser ==
    /\ pending.route = "delete_user"
    /\ Respond("delete_user", pending.token, pending.who, "ok", TRUE, pending.uid,
               None, None, None, delete_user_final(accounts, pending))
    /\ pending' = Idle
    /\ UNCHANGED revoked

FinishUpdateUser ==
    /\ pending.route = "update_user"
    /\ Respond("update_user", pending.token, pending.who, "ok", TRUE, pending.uid,
               None, pending.email, pending.password,
               update_user_final(accounts, pending))
    /\ pending' = Idle
    /\ UNCHANGED revoked

NextInterleaved ==
    \/ BeginDeleteUser
    \/ BeginUpdateUser
    \/ FinishDeleteUser
    \/ FinishUpdateUser
    \/ UpdateUserRole
    \/ HttpSignupUser

SpecInterleaved == Init /\ [][NextInterleaved]_vars

(***************************************************************************)
(* Properties.  They read the last request served (last), the provider's   *)
(* store after it (accounts) and the history (accounts0, superActed).      *)
(***************************************************************************)

AdminTier(meta) == RoleOf(meta) \in {"admin", "superadmin"}
ActorRole == RoleOf(last.actorMeta)
TargetRole == RoleOf(last.targetMeta)
\* The request supplied at least one of email and password.
SuppliesCredential == last.email # None \/ last.password # None
\* The handler ran for an actor handed to it as current_user.
ResolvedActor == last.resolved /\ last.actor # NoId
\* Ops of the calls the request issued.
CallOps == {last.calls[k].op : k \in 1..Len(last.calls)}
\* A mutation call for the request's target reached the provider.
MutationIssuedForTarget ==
    \E k \in 1..Len(last.calls) :
        /\ last.calls[k].op \in {"update_user_by_id", "update_user", "delete_user"}
        /\ last.calls[k].id = last.uid
\* The provider failed the request's target lookup.
LookupFailed ==
    /\ last.rejected
    /\ last.calls # <<>>
    /\ last.calls[Len(last.calls)].op = "get_user_by_id"
\* The target is still the account it was when the request arrived.
TargetRoleUnchanged ==
    last.targetLive => /\ accounts[last.uid].st = "live"
                       /\ accounts[last.uid].role = last.targetMeta
AdminGatedRoutes == {"list_users", "update_user_role", "delete_user", "signup_admin"}
AdminModuleRoutes == AdminGatedRoutes \cup {"update_user"}
ProtectedRoutes == AdminModuleRoutes \cup {"me"}

\* C1: a resolved actor of role user is answered 403 on list_users,
\* update_user_role, delete_user and signup_admin, and the request issues no
\* provider call other than the token resolution.
C1_UserForbiddenOnAdminRoutes ==
    (ResolvedActor /\ ActorRole = "user" /\ last.route \in AdminGatedRoutes)
        => /\ last.status = 403
           /\ CallOps \subseteq {"get_user"}

C1_Witness ==
    /\ ResolvedActor /\ ActorRole = "user"
    /\ last.route = "delete_user" /\ last.targetLive
    /\ last.status = 403

\* C2: update_user by a resolved actor of role user on another account is
\* answered 403 and no update call for the target reaches the provider.
\* (Stated for requests that supply a credential and whose provider calls
\* are all answered, so that neither validation nor a provider failure is
\* what decides the response.)
C2_UserCannotUpdateOthers ==
    (/\ ResolvedActor /\ ActorRole = "user"
     /\ last.route = "update_user" /\ last.targetLive /\ last.uid # last.actor
     /\ SuppliesCredential /\ ~last.rejected)
        => /\ last.status = 403
           /\ ~MutationIssuedForTarget

\* C3: for a resolved actor of role admin and another live account as target,
\* delete_user and update_user are denied without a delete or update call
\* when the target is admin or superadmin, and go through to the delete or
\* update call when the target is user (given the target lookup is answered;
\* the response is then 200 unless the provider refuses the call).
C3_AdminMutatesOnlyUsers ==
    (/\ ResolvedActor /\ ActorRole = "admin"
     /\ last.route \in {"delete_user", "update_user"}
     /\ last.targetLive /\ last.uid # last.actor
     /\ last.route = "update_user" => SuppliesCredential)
        => IF TargetRole \in {"admin", "superadmin"}
           THEN /\ last.status # 200
                /\ ~MutationIssuedForTarget
                /\ TargetRoleUnchanged
           ELSE /\ ~LookupFailed => MutationIssuedForTarget
                /\ ~last.rejected => last.status = 200

C3_Witness ==
    /\ ResolvedActor /\ ActorRole = "admin"
    /\ last.route = "delete_user" /\ last.targetLive /\ last.uid # last.actor
    /\ TargetRole = "user" /\ last.status = 200
    /\ accounts[last.uid].st = "deleted"

\* C4: update_user_role by a resolved actor of role admin on a target whose
\* role is admin or superadmin is denied for every requested role, and no
\* role update for the target reaches the provider.
C4_AdminCannotChangeRoleOfAdmins ==
    (/\ ResolvedActor /\ ActorRole = "admin"
     /\ last.route = "update_user_role"
     /\ last.targetLive /\ TargetRole \in {"admin", "superadmin"})
        => /\ last.status # 200
           /\ ~MutationIssuedForTarget

\* C4, for targets other than the actor (a self-demotion set aside):
\* update_user_role by a resolved actor of role admin on another account
\* whose role is admin or superadmin is denied for every requested role, and
\* no role update for the target reaches the provider.
C4_AdminCannotChangeRoleOfOtherAdmins ==
    (/\ ResolvedActor /\ ActorRole = "admin"
     /\ last.route = "update_user_role" /\ last.uid # last.actor
     /\ last.targetLive /\ TargetRole \in {"admin", "superadmin"})
        => /\ last.status # 200
           /\ ~MutationIssuedForTarget

\* C5: update_user_role to admin or superadmin by a resolved actor that is
\* not superadmin is denied, whatever the target, and the target's role is
\* unchanged afterwards.
C5_OnlySuperadminGrantsPrivilege ==
    (/\ ResolvedActor /\ ActorRole # "superadmin"
     /\ last.route = "update_user_role"
     /\ last.role \in {"admin", "superadmin"})
        => /\ last.status \in {400, 403}
           /\ ~MutationIssuedForTarget
           /\ TargetRoleUnchanged

C5_Witness ==
    /\ ResolvedActor /\ ActorRole = "admin"
    /\ last.route = "update_user_role" /\ last.role = "admin"
    /\ last.targetLive /\ TargetRole = "user"
    /\ last.status = 400

\* C6: as long as no request was made by a superadmin actor, every account
\* that was admin or superadmin in the initial state still exists with the
\* same role.
C6_AdminTierPreservedWithoutSuperadmin ==
    ~superActed =>
        \A i \in Ids :
            (accounts0[i].st = "live" /\ AdminTier(accounts0[i].role))
                => /\ accounts[i].st = "live"
                   /\ accounts[i].role = accounts0[i].role

\* C6, for requests on accounts other than the actor's own (a self-demotion
\* set aside): while no superadmin has made a request, a request on another
\* account that is admin or superadmin as it was in the initial state leaves
\* it in place with its role.
C6_NoRemovalOrDemotionByOthers ==
    (/\ ~superActed /\ ResolvedActor
     /\ last.route \in AdminModuleRoutes /\ last.uid # last.actor
     /\ last.targetLive /\ AdminTier(last.targetMeta)
     /\ accounts0[last.uid].role = last.targetMeta)
        => TargetRoleUnchanged

\* C7: for a resolved actor of role superadmin every operation succeeds
\* against every live target of every role, provided the provider accepts
\* each call (and, for update_user, a credential is supplied).
C7_SuperadminNeverDenied ==
    (/\ ResolvedActor /\ ActorRole = "superadmin"
     /\ last.route \in AdminModuleRoutes
     /\ last.route \in {"update_user_role", "delete_user", "update_user"}
            => last.targetLive
     /\ last.route = "update_user" => SuppliesCredential
     /\ ~last.rejected)
        => last.status = 200

\* The same, update_user on the actor's own account set aside.
C7_SuperadminNeverDeniedOnOthers ==
    (/\ ResolvedActor /\ ActorRole = "superadmin"
     /\ last.route \in AdminModuleRoutes
     /\ last.route \in {"update_user_role", "delete_user", "update_user"}
            => last.targetLive
     /\ last.route = "update_user" => (SuppliesCredential /\ last.uid # last.actor)
     /\ ~last.rejected)
        => last.status = 200

\* C8: update_user on the actor's own account with a credential supplied
\* succeeds for a resolved actor of any role (provided the provider accepts
\* the update).
C8_SelfUpdateSucceeds ==
    (/\ ResolvedActor
     /\ last.route = "update_user" /\ last.uid = last.actor
     /\ SuppliesCredential /\ ~last.rejected)
        => /\ last.status = 200
           /\ MutationIssuedForTarget

\* C9: on the routes of routes/admin.py, a bearer token the provider resolves
\* to an account is handed to the handler as current_user, and the request
\* is not answered 401.
C9_AdminRoutesResolveActor ==
    (/\ last.route \in AdminModuleRoutes
     /\ last.actor # NoId /\ last.res = "ok")
        => /\ last.resolved
           /\ last.status # 401

\* C10: on every protected route a bearer token the provider cannot resolve
\* (error, no user, or a token that names no account) is answered 401 with
\* the one failure detail; the handler does not run and no provider call
\* follows the resolution.
C10_UnresolvedTokenUnauthenticated ==
    (/\ last.route \in ProtectedRoutes
     /\ (last.actor = NoId \/ last.res # "ok"))
        => /\ last.status = 401
           /\ last.detail = "Invalid authentication credentials"
           /\ ~last.resolved
           /\ CallOps \subseteq {"get_user"}
           /\ last.body = {}

C10_Witness ==
    /\ last.route = "me" /\ last.res = "nouser" /\ last.actor # NoId
    /\ last.status = 401
    /\ CallOps = {"get_user"}


\* The texts of the policy denials: those of the role dependencies, and those
\* raised inside a handler, as they reach the client.
DependencyDenials == {"Admin or Superadmin access required",
                      "Superadmin access required"}
HandlerDenials ==
    {"Superadmin access required to set admin or superadmin role",
     "Superadmin access required to delete admin or superadmin",
     "Admins cannot update other admins or superadmins"}
\* The request was denied by the authorization policy.
PolicyDenied ==
    \/ last.status = 403 /\ last.detail \in DependencyDenials
    \/ \E d \in HandlerDenials : last.detail \in {d, StrHTTP(403, d)}
MutationOps == {"create_user", "sign_up", "update_user_by_id", "update_user",
                "delete_user"}
\* Stage of a provider call within a request: token resolution, target
\* lookup, then the final call.
Stage(op) == IF op = "get_user" THEN 1
             ELSE IF op = "get_user_by_id" THEN 2 ELSE 3

\* C11: every request of a resolved actor that the authorization policy
\* denies is answered 403, the denials decided inside delete_user,
\* update_user_role and update_user included.
C11_DenialIs403 ==
    (ResolvedActor /\ PolicyDenied) => last.status = 403

\* C12: the provider calls of a request are issued in the order token
\* resolution, target lookup, final call (at most one of each), and a request
\* that ends in a policy denial issued no create, update or delete call and
\* leaves the provider's accounts as they were.
C12_CallOrderAndNoMutationOnDenial ==
    [][/\ \A j, k \in 1..Len(last'.calls) :
              j < k => Stage(last'.calls[j].op) < Stage(last'.calls[k].op)
       /\ PolicyDenied' => /\ CallOps' \cap MutationOps = {}
                           /\ accounts' = accounts]_vars

C12_Witness ==
    /\ ResolvedActor /\ ActorRole = "admin" /\ PolicyDenied
    /\ last.route = "delete_user" /\ last.uid # last.actor
    /\ CallOps = {"get_user_by_id"}
    /\ accounts[last.uid].st = "live"


\* C13: an update_user request that supplies neither email nor password is
\* answered with the validation error, and the request issued no provider
\* call, the token resolution included.
C13_ValidationBeforeAnyProviderCall ==
    (/\ last.route = "update_user"
     /\ last.email = None /\ last.password = None)
        => /\ last.status = 400
           /\ last.detail
                = StrHTTP(400, "At least one of email or password must be provided")
           /\ last.calls = <<>>


\* C14: an account without role metadata counts as role user.  As resolved
\* actor it is answered 403 on every admin-gated route without a provider
\* call; as target of delete_user or update_user by a resolved admin actor it
\* is deleted or updated like a user account (given a credential is supplied
\* to update_user and the provider accepts the calls).
C14_NoRoleMeansUser ==
    /\ (ResolvedActor /\ last.actorMeta = "none"
        /\ last.route \in AdminGatedRoutes)
           => /\ last.status = 403
              /\ last.calls = <<>>
    /\ (/\ ResolvedActor /\ last.actorMeta = "admin"
        /\ last.route \in {"delete_user", "update_user"}
        /\ last.targetLive /\ last.targetMeta = "none" /\ last.uid # last.actor
        /\ last.route = "update_user" => SuppliesCredential
        /\ ~last.rejected)
           => /\ last.status = 200
              /\ MutationIssuedForTarget

C14_Witness ==
    /\ ResolvedActor /\ last.actorMeta = "admin"
    /\ last.route = "delete_user" /\ last.uid # last.actor
    /\ last.targetLive /\ last.targetMeta = "none"
    /\ last.status = 200
    /\ accounts[last.uid].st = "deleted"


IsSuperadmin(acc, i) == Live(acc, i) /\ acc[i].role = "superadmin"

\* C16: an account comes to hold role superadmin only through an
\* update_user_role request for it by a superadmin actor; an account created
\* by signup_user has role user, one created by signup_admin role admin;
\* update_user changes no role.  And while no account was superadmin in the
\* initial state, none is.
C16_SuperadminOnlyBySuperadmin ==
    /\ []((~superActed /\ \A i \in Ids : ~IsSuperadmin(accounts0, i))
             => \A i \in Ids : ~IsSuperadmin(accounts, i))
    /\ [][\A i \in Ids :
            /\ (IsSuperadmin(accounts', i) /\ ~IsSuperadmin(accounts, i))
                  => /\ last'.route = "update_user_role" /\ last'.uid = i
                     /\ last'.role = "superadmin"
                     /\ last'.resolved
                     /\ RoleOf(last'.actorMeta) = "superadmin"
            /\ (Live(accounts', i) /\ ~Live(accounts, i))
                  => \/ last'.route = "signup_user" /\ accounts'[i].role = "user"
                     \/ last'.route = "signup_admin" /\ accounts'[i].role = "admin"
            /\ (last'.route = "update_user" /\ Live(accounts', i))
                  => accounts'[i].role = accounts[i].role]_vars

C16_Witness ==
    /\ ResolvedActor /\ ActorRole = "superadmin"
    /\ last.route = "update_user_role" /\ last.role = "superadmin"
    /\ last.targetLive /\ TargetRole = "user" /\ last.status = 200
    /\ IsSuperadmin(accounts, last.uid)


C17_AdminNeverMutatesPrivilegedAtEffect ==
    (/\ ResolvedActor /\ ActorRole = "admin"
     /\ last.route \in {"delete_user", "update_user"}
     /\ last.uid # last.actor
     /\ MutationIssuedForTarget /\ last.status = 200)
        => ~AdminTier(last.targetMeta)

====
